---- MODULE Spec2Model ----
(***************************************************************************)
(* Model of custom_code/major_disaster_analysis.py: the three reporters    *)
(* death_vs_gdp, major_disaster_distribution and map_distribution_cases    *)
(* with its reactive callback major_disaster_map.                          *)
(*                                                                         *)
(* A DataFrame is a sequence of rows, a row a function from column names   *)
(* to cell values.  Cell values are integers; the missing value is NaN.    *)
(* A frame that carries a meaningful index has it in the pseudo-column     *)
(* "index".  A date is [year, day] with day the day of the year.           *)
(***************************************************************************)
EXTENDS Integers, Sequences, FiniteSets, TLC

VARIABLES
    natural_disaster_df,  \* the disaster table handed to every entry point
    gdp_df,               \* the GDP table handed to death_vs_gdp
    selector_opts,        \* the selector configuration of map_distribution_cases
    status,               \* per entry point: "not_called", "returned", "raised"
    new_df,               \* the frame death_vs_gdp hands to plot.scatter
    ax,                   \* the frame major_disaster_distribution hands to gv.Polygons
    dateslider,           \* pn.widgets.DateRangeSlider: start, end, value_start, value_end
    selector,             \* pn.widgets.Select: options, value
    phase,                \* dashboard: "none", "idle", "recomputing"
    pending,              \* widget change events not yet processed by the event loop
    bound,                \* arguments pn.bind resolved for the running callback
    view                  \* what the DynamicMap shows: the last ax+bar returned

vars == <<natural_disaster_df, gdp_df, selector_opts, status, new_df, ax,
          dateslider, selector, phase, pending, bound, view>>

----------------------------------------------------------------------------
(* Bounds of the model *)

\* longest disaster table and GDP table enumerated
MaxRows == 2
\* days modelled per year (a date is a year and a day in 1..DaysPerYear)
DaysPerYear == 2
\* widget events that may wait for the event loop
MaxPending == 1
\* country codes of the widest disaster table (more than the ten bars shown)
WideCountries == 12
\* first year of the enumerated disaster rows
FirstYear == 2000

(* Program constants *)

\* pandas' missing value
NaN == -1
\* new_df['Total Deaths'] > 5000
DEATH_THRESHOLD == 5000
\* .iloc[:10]
TOP_N == 10

----------------------------------------------------------------------------
(* Columns *)

DisasterColumns ==
    {"ISO", "Year", "Total Deaths", "No Injured", "No Affected", "No Homeless",
     "Reconstruction Costs ('000 US$)", "Total Damages ('000 US$)"}

GdpColumns == {"Code", "Year", "GDP per capita"}

\* selector_opts of map_distribution_cases; OptKeys is its key order
OptKeys ==
    <<"# Disasters", "# Deaths", "# Injured", "# Affected", "# Homeless",
      "Reconstruction Costs", "Total Damanges">>

Opt(dv, dv2, fn, op) ==
    [dep_var |-> dv, dep_var_2 |-> dv2, feature_name |-> fn, group_op |-> op]

SelectorOpts ==
    ("# Disasters" :> Opt("Year", "Year_2", "# Disasters", "count")) @@
    ("# Deaths" :> Opt("Total Deaths", "TD_2", "# Deaths", "sum")) @@
    ("# Injured" :> Opt("No Injured", "num_inj", "# Injured", "sum")) @@
    ("# Affected" :> Opt("No Affected", "num_aff", "# Affected", "sum")) @@
    ("# Homeless" :> Opt("No Homeless", "num_homeless", "# Homeless", "sum")) @@
    ("Reconstruction Costs" :>
        Opt("Reconstruction Costs ('000 US$)", "num_recon_costs",
            "Reconstruction Costs", "sum")) @@
    ("Total Damanges" :>
        Opt("Total Damages ('000 US$)", "num_damages", "Total Damanges", "sum"))

\* geopandas' naturalearth_lowres: one row per polygon.  Code 99 stands for
\* the '-99' that several polygons of the dataset share.
World ==
    << [name |-> 101, iso_a3 |-> 1],
       [name |-> 102, iso_a3 |-> 2],
       [name |-> 103, iso_a3 |-> 3],
       [name |-> 104, iso_a3 |-> 99],
       [name |-> 105, iso_a3 |-> 99] >>

----------------------------------------------------------------------------
(* pandas *)

Range(s) == {s[i] : i \in DOMAIN s}

RECURSIVE Flatten(_)
Flatten(ss) == IF ss = <<>> THEN <<>> ELSE Head(ss) \o Flatten(Tail(ss))

RECURSIVE SortedSeq(_)
\* the elements of a set of integers, ascending
SortedSeq(S) ==
    IF S = {} THEN <<>>
    ELSE LET m == CHOOSE x \in S : \A y \in S : x <= y
         IN  <<m>> \o SortedSeq(S \ {m})

Restrict(r, cols) == [c \in cols |-> r[c]]

\* frame[[cols]]
Project(rows, cols) == [i \in DOMAIN rows |-> Restrict(rows[i], cols)]

\* frame.dropna(): rows with no missing cell
dropna(rows) == SelectSeq(rows, LAMBDA r : \A c \in DOMAIN r : r[c] # NaN)

\* a fill that is left out: missing cells stay missing
fillna_skipped(rows, v) == rows

\* frame.fillna(v)
fillna(rows, v) ==
    [i \in DOMAIN rows |->
        [c \in DOMAIN rows[i] |-> IF rows[i][c] = NaN THEN v ELSE rows[i][c]]]

\* how='inner': a left row that nothing matches is dropped
merge_inner(left, right, right_cols, left_on, right_on) ==
    LET Match(l, r) == \A k \in DOMAIN left_on : l[left_on[k]] = r[right_on[k]]
        Joined(l) ==
            LET hits == SelectSeq(right, LAMBDA r : Match(l, r))
            IN  [j \in DOMAIN hits |-> l @@ Restrict(hits[j], right_cols)]
    IN  Flatten([i \in DOMAIN left |-> Joined(left[i])])

\* left.merge(right, how='left', left_on=..., right_on=...): every left row in
\* order, once per matching right row, or once padded with NaN when none matches
merge_left(left, right, right_cols, left_on, right_on) ==
    LET Match(l, r) == \A k \in DOMAIN left_on : l[left_on[k]] = r[right_on[k]]
        Joined(l) ==
            LET hits == SelectSeq(right, LAMBDA r : Match(l, r))
            IN  IF hits = <<>>
                THEN << l @@ [c \in right_cols \ DOMAIN l |-> NaN] >>
                ELSE [j \in DOMAIN hits |-> l @@ Restrict(hits[j], right_cols)]
    IN  Flatten([i \in DOMAIN left |-> Joined(left[i])])

\* frame.groupby(key): the sorted group keys (missing keys dropped) and the
\* rows of each group
groupby(rows, key) ==
    LET keys == {rows[i][key] : i \in DOMAIN rows} \ {NaN}
    IN  [index |-> SortedSeq(keys),
         groups |-> [k \in keys |-> SelectSeq(rows, LAMBDA r : r[key] = k)]]

RECURSIVE SumSkipNa(_, _)
\* Series.sum(): missing cells are skipped, an all-missing column sums to 0
SumSkipNa(rows, col) ==
    IF rows = <<>> THEN 0
    ELSE (IF Head(rows)[col] = NaN THEN 0 ELSE Head(rows)[col])
         + SumSkipNa(Tail(rows), col)

\* grouped[col].sum(): a Series indexed by group key
group_sum(grouped, col) ==
    [index |-> grouped.index,
     values |-> [k \in DOMAIN grouped.groups |-> SumSkipNa(grouped.groups[k], col)]]

\* .sum() where .count() was meant
group_count_summed(grouped, col) ==
    [index |-> grouped.index,
     values |-> [k \in DOMAIN grouped.groups |-> SumSkipNa(grouped.groups[k], col)]]

\* grouped[col].count(): the non-missing cells of col per group
group_count(grouped, col) ==
    [index |-> grouped.index,
     values |-> [k \in DOMAIN grouped.groups |->
                    Len(SelectSeq(grouped.groups[k], LAMBDA r : r[col] # NaN))]]

\* pd.DataFrame(data={column: Series}): one row per index label of the union
\* of the Series' indexes, a label a Series lacks giving NaN
DataFrame(data) ==
    LET labels == UNION {DOMAIN data[c].values : c \in DOMAIN data}
        index == SortedSeq(labels)
    IN  [i \in DOMAIN index |->
            ("index" :> index[i]) @@
            [c \in DOMAIN data |->
                IF index[i] \in DOMAIN data[c].values
                THEN data[c].values[index[i]] ELSE NaN]]

\* frame.rename(columns=mapping)
rename(rows, mapping) ==
    LET NewName(c) == IF c \in DOMAIN mapping THEN mapping[c] ELSE c
        Row(r) == [d \in {NewName(c) : c \in DOMAIN r} |->
                      r[CHOOSE c \in DOMAIN r : NewName(c) = d]]
    IN  [i \in DOMAIN rows |-> Row(rows[i])]

\* frame['inde'] = frame.index
assign_inde(rows) == [i \in DOMAIN rows |-> rows[i] @@ ("inde" :> rows[i]["index"])]

RECURSIVE InsertDesc(_, _, _)
\* r placed behind every row of the sorted rows that is not smaller in col
InsertDesc(r, sorted, col) ==
    IF sorted = <<>> THEN <<r>>
    ELSE IF Head(sorted)[col] >= r[col]
         THEN <<Head(sorted)>> \o InsertDesc(r, Tail(sorted), col)
         ELSE <<r>> \o sorted

RECURSIVE SortDescFrom(_, _, _)
SortDescFrom(rows, sorted, col) ==
    IF rows = <<>> THEN sorted
    ELSE SortDescFrom(Tail(rows), InsertDesc(Head(rows), sorted, col), col)

\* a sort that is left out: the rows stay in index order
sort_values_skipped(rows, col) == rows

\* frame.sort_values(col, ascending=False): equal values keep their order,
\* missing values go last
sort_values_desc(rows, col) == SortDescFrom(rows, <<>>, col)

\* a slice that is left out: every row is kept
iloc_all(rows, n) == rows

\* frame.iloc[:n]
iloc_head(rows, n) == SubSeq(rows, 1, IF Len(rows) < n THEN Len(rows) ELSE n)

\* Series.min() and Series.max(): missing cells skipped, NaN for no value
series_min(rows, col) ==
    LET vs == {rows[i][col] : i \in DOMAIN rows} \ {NaN}
    IN  IF vs = {} THEN NaN ELSE CHOOSE x \in vs : \A y \in vs : x <= y

series_max(rows, col) ==
    LET vs == {rows[i][col] : i \in DOMAIN rows} \ {NaN}
    IN  IF vs = {} THEN NaN ELSE CHOOSE x \in vs : \A y \in vs : x >= y

----------------------------------------------------------------------------
(* datetime *)

\* dt.datetime(year, 1, 1)
datetime_jan1(y) == [year |-> y, day |-> 1]

DateLE(a, b) == a.year < b.year \/ (a.year = b.year /\ a.day <= b.day)

----------------------------------------------------------------------------
(* death_vs_gdp *)

\* a threshold that lets a disaster of exactly DEATH_THRESHOLD deaths through
is_major_inclusive(r) ==
    r["Total Deaths"] # NaN /\ r["Total Deaths"] >= DEATH_THRESHOLD

\* new_df['Total Deaths'] > 5000: false for a missing value
is_major(r) ==
    r["Total Deaths"] # NaN /\ r["Total Deaths"] > DEATH_THRESHOLD

\* the frame handed to plot.scatter, and the arguments as the call leaves them
death_vs_gdp(disaster, gdp) ==
    LET merged == merge_left(disaster, gdp, GdpColumns,
                             <<"ISO", "Year">>, <<"Code", "Year">>)
        major == SelectSeq(merged, is_major)
        plotted == dropna(Project(major, {"Total Deaths", "GDP per capita"}))
    IN  [natural_disaster_df |-> disaster,
         gdp_df |-> gdp,
         new_df |-> plotted,
         raised |-> FALSE]

----------------------------------------------------------------------------
(* major_disaster_distribution *)

\* the frame handed to gv.Polygons with its value dimensions
major_disaster_distribution(disaster) ==
    LET country_count == group_count(groupby(disaster, "ISO"), "Year")
        renamed == rename(DataFrame("Year" :> country_count), "Year" :> "Year_2")
        with_inde == assign_inde(renamed)
        world == fillna(merge_left(World, with_inde, {"Year_2", "inde"},
                                   <<"iso_a3">>, <<"inde">>), 0)
    IN  [natural_disaster_df |-> disaster,
         world |-> world,
         vdims |-> <<"Year_2", "name">>,
         raised |-> FALSE]

----------------------------------------------------------------------------
(* map_distribution_cases *)

\* hv.Bars(data, kdim, vdim): one bar per row, in row order
Bars(rows, kdim, vdim) ==
    [i \in DOMAIN rows |-> [x |-> rows[i][kdim], y |-> rows[i][vdim]]]

\* an end year that is excluded: Year < end_time.year
restrict_years_exclusive(disaster, start_time, end_time) ==
    SelectSeq(disaster, LAMBDA r :
        r["Year"] # NaN /\ start_time.year <= r["Year"] /\ r["Year"] < end_time.year)

\* natural_disaster_df[(start_time.year <= Year) & (Year <= end_time.year)]
restrict_years(disaster, start_time, end_time) ==
    SelectSeq(disaster, LAMBDA r :
        r["Year"] # NaN /\ start_time.year <= r["Year"] /\ r["Year"] <= end_time.year)

\* the loop over selector_opts.keys() that fills country_var_dict
country_var_dict(grouped, opts) ==
    [dv \in {opts[k].dep_var : k \in Range(OptKeys)} |->
        LET k == CHOOSE k \in Range(OptKeys) : opts[k].dep_var = dv
        IN  IF opts[k].group_op = "sum" THEN group_sum(grouped, dv)
            ELSE group_count(grouped, dv)]

\* the dep_var_2 columns of the per-country table
Dep2Columns(opts) == {opts[k].dep_var_2 : k \in Range(OptKeys)}

\* the frames the callback builds: the per-country table, the frame of the
\* polygon visual with its colour column, and the bars
major_disaster_frames(disaster, opts, start_time, end_time, vis_type) ==
    LET restricted_df == restrict_years(disaster, start_time, end_time)
        grouped == groupby(restricted_df, "ISO")
        columns_names == [dv \in {opts[k].dep_var : k \in Range(OptKeys)} |->
                             opts[CHOOSE k \in Range(OptKeys) :
                                      opts[k].dep_var = dv].dep_var_2]
        country_var ==
            assign_inde(rename(DataFrame(country_var_dict(grouped, opts)),
                               columns_names))
        world == fillna(merge_left(World, country_var,
                                   Dep2Columns(opts) \cup {"inde"},
                                   <<"iso_a3">>, <<"inde">>), 0)
        shown == opts[vis_type].dep_var_2
        bar == Bars(iloc_head(sort_values_desc(country_var, shown), TOP_N),
                    "inde", shown)
    IN  [country_var |-> country_var,
         world |-> world,
         color_index |-> shown,
         bar |-> bar]

\* a callback that filters the captured table in place
major_disaster_map_inplace(disaster, opts, start_time, end_time, vis_type) ==
    [natural_disaster_df |-> restrict_years(disaster, start_time, end_time),
     selector_opts |-> opts] @@
    major_disaster_frames(disaster, opts, start_time, end_time, vis_type)

\* the callback bound to the slider and the selector: ax + bar, and the
\* captured table and configuration as the call leaves them (every statement
\* of the body assigns a local name or a column of a derived frame)
major_disaster_map(disaster, opts, start_time, end_time, vis_type) ==
    [natural_disaster_df |-> disaster, selector_opts |-> opts] @@
    major_disaster_frames(disaster, opts, start_time, end_time, vis_type)

\* what the DynamicMap shows of a callback's return value
Shown(r) ==
    [country_var |-> r.country_var, world |-> r.world,
     color_index |-> r.color_index, bar |-> r.bar]

NoView == [country_var |-> <<>>, world |-> <<>>, color_index |-> "", bar |-> <<>>]

NoDate == [year |-> NaN, day |-> NaN]
NoSlider == [start |-> NoDate, end |-> NoDate,
             value_start |-> NoDate, value_end |-> NoDate]
NoSelector == [options |-> <<>>, value |-> ""]
NoArgs == [start_time |-> NoDate, end_time |-> NoDate, vis_type |-> ""]

\* the body of map_distribution_cases: the widgets it builds, or raised when
\* dt.datetime is given the NaN that min() and max() return for no value
map_distribution_cases(disaster, opts) ==
    LET min_year == series_min(disaster, "Year")
        max_year == series_max(disaster, "Year")
    IN  IF min_year = NaN \/ max_year = NaN
        THEN [raised |-> TRUE, dateslider |-> NoSlider, selector |-> NoSelector]
        ELSE LET min_date == datetime_jan1(min_year)
                 max_date == datetime_jan1(max_year + 1)
             IN  [raised |-> FALSE,
                  dateslider |-> [start |-> min_date, end |-> max_date,
                                  value_start |-> min_date, value_end |-> max_date],
                  selector |-> [options |-> OptKeys, value |-> OptKeys[1]]]

\* end_time bound to the slider's value_start as well
bind_args_same_end(slider, sel) ==
    [start_time |-> slider.value_start, end_time |-> slider.value_start,
     vis_type |-> sel.value]

\* pn.bind(major_disaster_map, start_time=value_start, end_time=value_end,
\* vis_type=selector value): the arguments of a callback invocation
bind_args(slider, sel) ==
    [start_time |-> slider.value_start, end_time |-> slider.value_end,
     vis_type |-> sel.value]

\* the dates a slider can be set to: between start and end
SliderDates(slider) ==
    {d \in [year : slider.start.year .. slider.end.year, day : 1 .. DaysPerYear] :
        DateLE(slider.start, d) /\ DateLE(d, slider.end)}

\* the values a user can give the widgets: a date range of the slider, or an
\* option of the selector
WidgetEvents(slider, sel) ==
    {[widget |-> "dateslider", value_start |-> a, value_end |-> b, option |-> ""] :
        <<a, b>> \in {p \in SliderDates(slider) \X SliderDates(slider) :
                         DateLE(p[1], p[2])}}
    \cup
    {[widget |-> "selector", value_start |-> NoDate, value_end |-> NoDate,
      option |-> o] : o \in Range(sel.options)}

\* the widget values after an event
slider_after(slider, ev) ==
    IF ev.widget = "dateslider"
    THEN [slider EXCEPT !.value_start = ev.value_start, !.value_end = ev.value_end]
    ELSE slider

selector_after(sel, ev) ==
    IF ev.widget = "selector" THEN [sel EXCEPT !.value = ev.option] ELSE sel

----------------------------------------------------------------------------
(* Inputs *)

\* a disaster row; the fields the enumeration does not vary are set from the
\* ones it does, some of them missing
DisasterRow(iso, year, deaths) ==
    ("ISO" :> iso) @@ ("Year" :> year) @@ ("Total Deaths" :> deaths) @@
    ("No Injured" :> iso) @@
    ("No Affected" :> IF year = FirstYear THEN NaN ELSE 2) @@
    ("No Homeless" :> IF iso = 1 THEN NaN ELSE 3) @@
    ("Reconstruction Costs ('000 US$)" :> IF deaths = NaN THEN 4 ELSE NaN) @@
    ("Total Damages ('000 US$)" :> year - FirstYear + 5)

GdpRow(code, year, gdp) ==
    ("Code" :> code) @@ ("Year" :> year) @@ ("GDP per capita" :> gdp)

SeqsUpTo(S, n) == UNION {[1 .. k -> S] : k \in 0 .. n}

\* tables for the two map builders: every table of up to MaxRows of these rows
\* (two countries, two years, equal and different values, missing values), and
\* tables of more than TOP_N countries whose values tie (modulus 2, 3) or are
\* all different
BuilderRows ==
    {DisasterRow(1, FirstYear, DEATH_THRESHOLD + 1),
     DisasterRow(1, FirstYear, NaN),
     DisasterRow(1, FirstYear + 1, DEATH_THRESHOLD + 2),
     DisasterRow(2, FirstYear, DEATH_THRESHOLD + 1),
     DisasterRow(2, FirstYear + 1, NaN)}

WideTable(k, m) ==
    [i \in 1 .. k |-> DisasterRow(i, FirstYear, DEATH_THRESHOLD + (i % m))]

WideTables ==
    {WideTable(k, m) : k \in (WideCountries - 2) .. WideCountries,
                       m \in {2, 3, WideCountries + 1}}

\* a longer table: a country with two rows in one year, one of them without
\* deaths, and a row in the next year, beside a second country
MixedTable ==
    <<DisasterRow(1, FirstYear, DEATH_THRESHOLD + 1),
      DisasterRow(1, FirstYear, NaN),
      DisasterRow(2, FirstYear + 1, DEATH_THRESHOLD + 1),
      DisasterRow(1, FirstYear + 1, DEATH_THRESHOLD + 2)>>

BuilderTables == SeqsUpTo(BuilderRows, MaxRows) \cup WideTables \cup {MixedTable}

\* tables for death_vs_gdp: deaths below, at and above the threshold or
\* missing, GDP rows that match, match twice or not at all
ScatterRows ==
    {DisasterRow(k[1], k[2], d) :
        k \in {<<1, FirstYear>>, <<2, FirstYear>>, <<1, FirstYear + 1>>},
        d \in {NaN, DEATH_THRESHOLD, DEATH_THRESHOLD + 1}}

ScatterGdpRows ==
    {GdpRow(1, y, g) : y \in {FirstYear, FirstYear + 1}, g \in {NaN, 7}}

\* a longer pair: a disaster joined to two GDP rows, one of them without GDP,
\* a disaster of exactly the threshold, one without GDP row, one without deaths
ScatterMixed ==
    << <<DisasterRow(1, FirstYear, DEATH_THRESHOLD + 1),
         DisasterRow(1, FirstYear, DEATH_THRESHOLD),
         DisasterRow(2, FirstYear, DEATH_THRESHOLD + 1),
         DisasterRow(1, FirstYear + 1, NaN)>>,
       <<GdpRow(1, FirstYear, 7),
         GdpRow(1, FirstYear, NaN),
         GdpRow(1, FirstYear + 1, 7)>> >>

ScatterInputs ==
    (SeqsUpTo(ScatterRows, MaxRows) \X SeqsUpTo(ScatterGdpRows, MaxRows))
    \cup {ScatterMixed}

\* tables of a whole session: none with rows, and one of a single year
SessionTables ==
    {<<>>,
     <<DisasterRow(1, FirstYear, DEATH_THRESHOLD + 1),
       DisasterRow(2, FirstYear, NaN)>>}

SessionGdp == <<GdpRow(1, FirstYear, 7)>>

EntryPoints == {"death_vs_gdp", "major_disaster_distribution", "map_distribution_cases"}

----------------------------------------------------------------------------
(* State machine *)

InitWith(inputs) ==
    /\ \E p \in inputs : natural_disaster_df = p[1] /\ gdp_df = p[2]
    /\ selector_opts = SelectorOpts
    /\ status = [e \in EntryPoints |-> "not_called"]
    /\ new_df = <<>>
    /\ ax = <<>>
    /\ dateslider = NoSlider
    /\ selector = NoSelector
    /\ phase = "none"
    /\ pending = <<>>
    /\ bound = NoArgs
    /\ view = NoView

Init == InitWith(SessionTables \X {SessionGdp})

\* a dashboard over one of the builder tables whose widgets hold any values
\* they admit and whose callback invocation is due; none when
\* map_distribution_cases raised
InitBuilders ==
    /\ natural_disaster_df \in BuilderTables
    /\ gdp_df = <<>>
    /\ selector_opts = SelectorOpts
    /\ new_df = <<>>
    /\ ax = <<>>
    /\ pending = <<>>
    /\ view = NoView
    /\ LET r == map_distribution_cases(natural_disaster_df, SelectorOpts)
       IN  IF r.raised
           THEN /\ status = [e \in EntryPoints |->
                               IF e = "map_distribution_cases"
                               THEN "raised" ELSE "not_called"]
                /\ dateslider = NoSlider
                /\ selector = NoSelector
                /\ phase = "none"
                /\ bound = NoArgs
           ELSE /\ status = [e \in EntryPoints |->
                               IF e = "map_distribution_cases"
                               THEN "returned" ELSE "not_called"]
                /\ \E ev \in WidgetEvents(r.dateslider, r.selector) :
                      \E ev2 \in WidgetEvents(r.dateslider, r.selector) :
                         /\ ev.widget = "dateslider"
                         /\ ev2.widget = "selector"
                         /\ dateslider = slider_after(r.dateslider, ev)
                         /\ selector = selector_after(r.selector, ev2)
                /\ phase = "recomputing"
                /\ bound = bind_args(dateslider, selector)

InitScatter == InitWith(ScatterInputs)

\* a call of death_vs_gdp
DeathVsGdp ==
    LET r == death_vs_gdp(natural_disaster_df, gdp_df)
    IN  /\ natural_disaster_df' = r.natural_disaster_df
        /\ gdp_df' = r.gdp_df
        /\ new_df' = r.new_df
        /\ status' = [status EXCEPT !["death_vs_gdp"] =
                         IF r.raised THEN "raised" ELSE "returned"]
        /\ UNCHANGED <<selector_opts, ax, dateslider, selector, phase, pending,
                       bound, view>>

\* a call of major_disaster_distribution
MajorDisasterDistribution ==
    LET r == major_disaster_distribution(natural_disaster_df)
    IN  /\ natural_disaster_df' = r.natural_disaster_df
        /\ ax' = r.world
        /\ status' = [status EXCEPT !["major_disaster_distribution"] =
                         IF r.raised THEN "raised" ELSE "returned"]
        /\ UNCHANGED <<gdp_df, selector_opts, new_df, dateslider, selector, phase,
                       pending, bound, view>>

\* the call of map_distribution_cases (the model follows one dashboard): the
\* widgets are built and the DynamicMap's first callback invocation is due
MapDistributionCases ==
    /\ status["map_distribution_cases"] = "not_called"
    /\ LET r == map_distribution_cases(natural_disaster_df, selector_opts)
       IN  IF r.raised
           THEN /\ status' = [status EXCEPT !["map_distribution_cases"] = "raised"]
                /\ UNCHANGED <<dateslider, selector, phase, bound>>
           ELSE /\ status' = [status EXCEPT !["map_distribution_cases"] = "returned"]
                /\ dateslider' = r.dateslider
                /\ selector' = r.selector
                /\ phase' = "recomputing"
                /\ bound' = bind_args(r.dateslider, r.selector)
    /\ UNCHANGED <<natural_disaster_df, gdp_df, selector_opts, new_df, ax,
                   pending, view>>

\* the user moves the slider or picks an option: the change waits for the
\* event loop
UserInput ==
    /\ phase # "none"
    /\ Len(pending) < MaxPending
    /\ \E ev \in WidgetEvents(dateslider, selector) : pending' = Append(pending, ev)
    /\ UNCHANGED <<natural_disaster_df, gdp_df, selector_opts, status, new_df, ax,
                   dateslider, selector, phase, bound, view>>

\* a change reaches its widget: the widget gets its value and, when that
\* changed it, the bound callback is invoked with the widgets' values
Process(ev) ==
    LET s2 == slider_after(dateslider, ev)
        sel2 == selector_after(selector, ev)
    IN  /\ dateslider' = s2
        /\ selector' = sel2
        /\ IF s2 = dateslider /\ sel2 = selector
           THEN UNCHANGED <<phase, bound>>
           ELSE phase' = "recomputing" /\ bound' = bind_args(s2, sel2)

\* the event loop, free, takes the next waiting change
Dispatch ==
    /\ phase = "idle"
    /\ pending # <<>>
    /\ Process(Head(pending))
    /\ pending' = Tail(pending)
    /\ UNCHANGED <<natural_disaster_df, gdp_df, selector_opts, status, new_df, ax,
                   view>>

\* the user changes a widget while the event loop is free and nothing waits
WidgetChange ==
    /\ phase = "idle"
    /\ pending = <<>>
    /\ \E ev \in WidgetEvents(dateslider, selector) : Process(ev)
    /\ UNCHANGED <<natural_disaster_df, gdp_df, selector_opts, status, new_df, ax,
                   pending, view>>

\* the running callback returns and the DynamicMap shows what it returned
Render ==
    /\ phase = "recomputing"
    /\ LET r == major_disaster_map(natural_disaster_df, selector_opts,
                                   bound.start_time, bound.end_time, bound.vis_type)
       IN  /\ view' = Shown(r)
           /\ natural_disaster_df' = r.natural_disaster_df
           /\ selector_opts' = r.selector_opts
    /\ phase' = "idle"
    /\ UNCHANGED <<gdp_df, status, new_df, ax, dateslider, selector, pending, bound>>

\* a session: the three entry points in any order, and the dashboard's widgets
\* changed whenever it is idle
Next ==
    \/ DeathVsGdp
    \/ MajorDisasterDistribution
    \/ MapDistributionCases
    \/ WidgetChange
    \/ Render

Spec == Init /\ [][Next]_vars

\* the dashboard with its event loop: changes made at any time wait their turn
InitDashboard == Init /\ natural_disaster_df # <<>>

NextDashboard ==
    \/ MapDistributionCases
    \/ UserInput
    \/ Dispatch
    \/ Render

SpecDashboard == InitDashboard /\ [][NextDashboard]_vars

\* the two map builders over the builder tables
NextBuilders ==
    \/ MajorDisasterDistribution
    \/ Render

SpecBuilders == InitBuilders /\ [][NextBuilders]_vars

NextScatter == DeathVsGdp

SpecScatter == InitScatter /\ [][NextScatter]_vars

----------------------------------------------------------------------------
(* Properties *)

\* the indexes of the disaster rows of a country within a range of years
RowsOf(iso, first_year, last_year) ==
    {i \in DOMAIN natural_disaster_df :
        /\ natural_disaster_df[i]["ISO"] = iso
        /\ first_year <= natural_disaster_df[i]["Year"]
        /\ natural_disaster_df[i]["Year"] <= last_year}

\* the country codes with a disaster row within a range of years
CountriesIn(first_year, last_year) ==
    {natural_disaster_df[i]["ISO"] : i \in
        {j \in DOMAIN natural_disaster_df :
            /\ first_year <= natural_disaster_df[j]["Year"]
            /\ natural_disaster_df[j]["Year"] <= last_year}}

RECURSIVE SumCells(_, _)
\* the sum of a field over a set of disaster rows, missing cells counting 0
SumCells(I, field) ==
    IF I = {} THEN 0
    ELSE LET i == CHOOSE j \in I : TRUE
             v == natural_disaster_df[i][field]
         IN  (IF v = NaN THEN 0 ELSE v) + SumCells(I \ {i}, field)

\* a metric's aggregate for a country over a range of years
Aggregate(k, iso, first_year, last_year) ==
    IF SelectorOpts[k].group_op = "count"
    THEN Cardinality(RowsOf(iso, first_year, last_year))
    ELSE SumCells(RowsOf(iso, first_year, last_year), SelectorOpts[k].dep_var)

StartYear == dateslider.value_start.year
EndYear == dateslider.value_end.year
AnyYear == {natural_disaster_df[i]["Year"] : i \in DOMAIN natural_disaster_df}

\* C1: after a recompute the per-country table has one row per country code
\* with a disaster row of start.year <= Year <= end.year, and its value in
\* every metric's column, whichever metric is selected, is that metric's
\* aggregate over exactly those rows of the country: the sum of the source
\* field for a 'sum' metric, the number of rows for the 'count' metric.
C1_PerCountryAggregates ==
    phase = "idle" =>
        /\ Len(view.country_var) = Cardinality(CountriesIn(StartYear, EndYear))
        /\ {view.country_var[i]["inde"] : i \in DOMAIN view.country_var}
               = CountriesIn(StartYear, EndYear)
        /\ \A i \in DOMAIN view.country_var : \A k \in Range(OptKeys) :
              view.country_var[i][SelectorOpts[k].dep_var_2]
                  = Aggregate(k, view.country_var[i]["inde"], StartYear, EndYear)

\* C1 witness: a recompute with '# Deaths' selected over a range that leaves
\* a row out and sums two rows of one country, one of them without deaths
C1_Witness ==
    /\ phase = "idle"
    /\ selector.value = "# Deaths"
    /\ \E y \in AnyYear : y < StartYear \/ y > EndYear
    /\ \E i \in DOMAIN view.country_var :
          /\ view.country_var[i]["Year_2"] = 2
          /\ view.country_var[i]["TD_2"] = DEATH_THRESHOLD + 1

\* C2 as stated: the bar chart has at most 10 bars and each bar's value is
\* greater than the value of the bar after it.
C2_StrictlyDescending ==
    phase = "idle" =>
        /\ Len(view.bar) <= TOP_N
        /\ \A i \in 1 .. Len(view.bar) - 1 : view.bar[i].y > view.bar[i + 1].y

\* C2 amended: the bar chart has at most 10 bars and no bar's value is smaller
\* than the value of the bar after it (countries of equal value follow each
\* other).
C2_Descending ==
    phase = "idle" =>
        /\ Len(view.bar) <= TOP_N
        /\ \A i \in 1 .. Len(view.bar) - 1 : view.bar[i].y >= view.bar[i + 1].y

\* C2 witness: ten bars out of more than ten countries, with a step down and
\* with two bars of equal value
C2_Witness ==
    /\ phase = "idle"
    /\ Len(view.country_var) > TOP_N
    /\ Len(view.bar) = TOP_N
    /\ \E i \in 1 .. Len(view.bar) - 1 : view.bar[i].y > view.bar[i + 1].y
    /\ \E i \in 1 .. Len(view.bar) - 1 : view.bar[i].y = view.bar[i + 1].y

\* the frame of a polygon visual holds every polygon once, in the geometry
\* table's order, with Value(column, code) in each column when the code is one
\* of codes and 0 when it is not
PolygonsCarry(frame, columns, codes, Value(_, _)) ==
    /\ Len(frame) = Len(World)
    /\ \A i \in DOMAIN World :
          /\ frame[i]["name"] = World[i].name
          /\ frame[i]["iso_a3"] = World[i].iso_a3
          /\ \A c \in columns :
                frame[i][c] = IF World[i].iso_a3 \in codes
                              THEN Value(c, World[i].iso_a3) ELSE 0

\* C3: in both map builders the frame handed to the polygon visual holds
\* every row of the geometry table exactly once; a polygon whose code has an
\* aggregate carries it, and a polygon whose code is absent from the
\* (filtered) aggregation carries 0 in every metric column.
C3_EveryPolygonOnce ==
    /\ status["major_disaster_distribution"] = "returned" =>
          PolygonsCarry(ax, {"Year_2"},
              {natural_disaster_df[i]["ISO"] : i \in DOMAIN natural_disaster_df},
              LAMBDA c, iso :
                 Cardinality({i \in DOMAIN natural_disaster_df :
                                 natural_disaster_df[i]["ISO"] = iso}))
    /\ phase = "idle" =>
          PolygonsCarry(view.world, Dep2Columns(SelectorOpts),
              CountriesIn(StartYear, EndYear),
              LAMBDA c, iso :
                 Aggregate(CHOOSE k \in Range(OptKeys) :
                               SelectorOpts[k].dep_var_2 = c,
                           iso, StartYear, EndYear))

\* C3 witness: both builders have run on a table that gives one polygon an
\* aggregate and leaves the others, two of them sharing a code, without
C3_Witness ==
    /\ status["major_disaster_distribution"] = "returned"
    /\ phase = "idle"
    /\ \E i \in DOMAIN ax : ax[i]["Year_2"] > 0
    /\ \E i \in DOMAIN view.world : view.world[i]["Year_2"] > 0
    /\ \E i, j \in DOMAIN view.world :
          /\ i # j
          /\ view.world[i]["iso_a3"] = view.world[j]["iso_a3"]
          /\ view.world[i]["Year_2"] = 0
    /\ \E i \in DOMAIN natural_disaster_df :
          \A j \in DOMAIN World : World[j].iso_a3 # natural_disaster_df[i]["ISO"]

\* C4: the '# disasters' value major_disaster_distribution attaches to a
\* country is the number of disaster rows whose ISO is the country's code,
\* and 0 for a country with no disaster row.
C4_DisasterCount ==
    status["major_disaster_distribution"] = "returned" =>
        \A i \in DOMAIN ax :
            ax[i]["Year_2"] =
                Cardinality({j \in DOMAIN natural_disaster_df :
                                natural_disaster_df[j]["ISO"] = ax[i]["iso_a3"]})

\* C4 witness: a country with two disaster rows beside a country with none
C4_Witness ==
    /\ status["major_disaster_distribution"] = "returned"
    /\ \E i \in DOMAIN ax : ax[i]["Year_2"] = 2
    /\ \E i \in DOMAIN ax :
          /\ ax[i]["Year_2"] = 0
          /\ \A j \in DOMAIN natural_disaster_df :
                natural_disaster_df[j]["ISO"] # ax[i]["iso_a3"]

\* C5: death_vs_gdp plots exactly the rows of the left join of the disaster
\* table with the GDP table on (ISO, Year) = (Code, Year) that have
\* Total Deaths > 5000 and Total Deaths and GDP per capita present: every
\* plotted point has such values, and a point is plotted once for every pair
\* of a disaster row and a GDP row of its country and year that gives it.
C5_PlottedRows ==
    status["death_vs_gdp"] = "returned" =>
        /\ \A k \in DOMAIN new_df :
              /\ DOMAIN new_df[k] = {"Total Deaths", "GDP per capita"}
              /\ new_df[k]["Total Deaths"] > DEATH_THRESHOLD
              /\ new_df[k]["GDP per capita"] # NaN
        /\ \A d \in {natural_disaster_df[i]["Total Deaths"] :
                        i \in DOMAIN natural_disaster_df} :
           \A g \in {gdp_df[j]["GDP per capita"] : j \in DOMAIN gdp_df} :
              Cardinality({k \in DOMAIN new_df :
                              /\ new_df[k]["Total Deaths"] = d
                              /\ new_df[k]["GDP per capita"] = g})
              = IF d # NaN /\ d > DEATH_THRESHOLD /\ g # NaN
                THEN Cardinality(
                       {p \in (DOMAIN natural_disaster_df) \X (DOMAIN gdp_df) :
                           /\ natural_disaster_df[p[1]]["ISO"] = gdp_df[p[2]]["Code"]
                           /\ natural_disaster_df[p[1]]["Year"] = gdp_df[p[2]]["Year"]
                           /\ natural_disaster_df[p[1]]["Total Deaths"] = d
                           /\ gdp_df[p[2]]["GDP per capita"] = g})
                ELSE 0
        /\ Len(new_df) =
              Cardinality(
                {p \in (DOMAIN natural_disaster_df) \X (DOMAIN gdp_df) :
                    /\ natural_disaster_df[p[1]]["ISO"] = gdp_df[p[2]]["Code"]
                    /\ natural_disaster_df[p[1]]["Year"] = gdp_df[p[2]]["Year"]
                    /\ natural_disaster_df[p[1]]["Total Deaths"] # NaN
                    /\ natural_disaster_df[p[1]]["Total Deaths"] > DEATH_THRESHOLD
                    /\ gdp_df[p[2]]["GDP per capita"] # NaN})

\* C5 witness: a point is plotted while a disaster of exactly 5000 deaths
\* with a GDP row and a disaster of more deaths without a GDP row are not
C5_Witness ==
    /\ status["death_vs_gdp"] = "returned"
    /\ Len(new_df) = 1
    /\ \E i \in DOMAIN natural_disaster_df : \E j \in DOMAIN gdp_df :
          /\ natural_disaster_df[i]["Total Deaths"] = DEATH_THRESHOLD
          /\ natural_disaster_df[i]["ISO"] = gdp_df[j]["Code"]
          /\ natural_disaster_df[i]["Year"] = gdp_df[j]["Year"]
          /\ gdp_df[j]["GDP per capita"] # NaN
    /\ \E i \in DOMAIN natural_disaster_df :
          /\ natural_disaster_df[i]["Total Deaths"] > DEATH_THRESHOLD
          /\ \A j \in DOMAIN gdp_df :
                \/ natural_disaster_df[i]["ISO"] # gdp_df[j]["Code"]
                \/ natural_disaster_df[i]["Year"] # gdp_df[j]["Year"]

\* C6 as stated: with an empty disaster table none of the three entry points
\* raises an error.
C6_EmptyTableNeverRaises ==
    natural_disaster_df = <<>> => \A e \in EntryPoints : status[e] # "raised"

\* no disaster row has its year within the slider's years
RangeExcludesAllRows == CountriesIn(StartYear, EndYear) = {}

\* the recompute found nothing: an empty per-country table, 0 in every metric
\* of every polygon, fewer than 10 bars
NothingAggregated ==
    /\ view.country_var = <<>>
    /\ Len(view.world) = Len(World)
    /\ \A i \in DOMAIN view.world : \A c \in Dep2Columns(SelectorOpts) :
          view.world[i][c] = 0
    /\ Len(view.bar) < TOP_N

\* C7 as stated: after a recompute whose date range collapses to a single day
\* or excludes all rows, the per-country table is empty, every polygon is 0
\* in every metric and the bar chart has fewer than 10 bars.
C7_SingleDayOrNoRows ==
    (phase = "idle"
       /\ (dateslider.value_start = dateslider.value_end \/ RangeExcludesAllRows))
    => NothingAggregated

\* C7 amended: after a recompute whose date range excludes all rows (no row
\* has start.year <= Year <= end.year), the per-country table is empty, every
\* polygon is 0 in every metric and the bar chart has fewer than 10 bars; a
\* range of a single day takes in every row of that day's year.
C7_NoRowsInRange ==
    /\ (phase = "idle" /\ RangeExcludesAllRows) => NothingAggregated
    /\ (phase = "idle" /\ dateslider.value_start = dateslider.value_end) =>
          {view.country_var[i]["inde"] : i \in DOMAIN view.country_var}
              = CountriesIn(StartYear, StartYear)

\* C7 witness: a recompute over a range that excludes every row of a table
\* that has rows
C7_Witness ==
    /\ phase = "idle"
    /\ natural_disaster_df # <<>>
    /\ RangeExcludesAllRows
    /\ view.bar = <<>>

\* what a recompute with the widgets' current values shows
CurrentView ==
    Shown(major_disaster_map(natural_disaster_df, selector_opts,
                             dateslider.value_start, dateslider.value_end,
                             selector.value))

C9_InputsUnchanged ==
    [][/\ natural_disaster_df' = natural_disaster_df
       /\ gdp_df' = gdp_df
       /\ selector_opts' = selector_opts]_vars

\* C9 witness: all three entry points have returned and a recompute after a
\* change of the slider has ended
C9_Witness ==
    /\ \A e \in EntryPoints : status[e] = "returned"
    /\ phase = "idle"
    /\ dateslider.value_start # dateslider.start
    /\ natural_disaster_df # <<>>

\* C10: the bar chart has min(10, n) bars, n the number of country codes in
\* the date-filtered disaster set; its bars are different countries of the
\* per-country table with their selected-metric values, and no country left
\* out has a greater value than a country shown.
C10_TopTen ==
    phase = "idle" =>
        LET n == Cardinality(CountriesIn(StartYear, EndYear))
            shown == {view.bar[i].x : i \in DOMAIN view.bar}
        IN  /\ Len(view.bar) = IF n < TOP_N THEN n ELSE TOP_N
            /\ Cardinality(shown) = Len(view.bar)
            /\ \A i \in DOMAIN view.bar :
                  /\ view.bar[i].x \in CountriesIn(StartYear, EndYear)
                  /\ view.bar[i].y =
                        Aggregate(selector.value, view.bar[i].x, StartYear, EndYear)
            /\ \A c \in CountriesIn(StartYear, EndYear) \ shown :
                  \A i \in DOMAIN view.bar :
                      Aggregate(selector.value, c, StartYear, EndYear) <= view.bar[i].y

\* C10 witness: more than ten countries, ten bars, and a country left out
\* whose value is smaller than every bar's
C10_Witness ==
    /\ phase = "idle"
    /\ Cardinality(CountriesIn(StartYear, EndYear)) > TOP_N
    /\ Len(view.bar) = TOP_N
    /\ \E c \in CountriesIn(StartYear, EndYear) :
          \A i \in DOMAIN view.bar :
              Aggregate(selector.value, c, StartYear, EndYear) < view.bar[i].y

====
